---- MODULE Spec2Model ----
(***************************************************************************)
(* libtaxii.common: the process-wide XML parser slot (get_xml_parser,      *)
(* set_xml_parser) and the generic equality of TAXIIBase (__eq__, __ne__). *)
(*                                                                         *)
(* Python values are records tagged by "kind":                             *)
(*   None      the None object                                             *)
(*   scalar    an atomic, hashable, unsized value (int, bool, datetime)    *)
(*   list      a Python list, items in order                               *)
(*   dict      a Python dict from keys to scalars                          *)
(*   elem      an lxml element without children or attributes             *)
(*   obj       an instance of a TAXIIBase subclass: class name, sort_key   *)
(*             and __dict__                                                *)
(* "missing" is not a Python value: it marks a name that is not in an      *)
(* object's __dict__ (or a key that is not in a dict).                     *)
(***************************************************************************)
EXTENDS Integers, Sequences, FiniteSets, TLC

VARIABLES XML_PARSER, constructed, lastCall, prevCall, lastSet, a, b, call, ret

vars == <<XML_PARSER, constructed, lastCall, prevCall, lastSet, a, b, call, ret>>
parserVars == <<XML_PARSER, constructed, lastCall, prevCall, lastSet>>
eqVars == <<a, b, call, ret>>

(***************************************************************************)
(* Bounds of the model.                                                    *)
(***************************************************************************)
\* longest list held by a field
MaxLen == 2
\* number of default parsers the process may construct
MaxDefaults == 3

(***************************************************************************)
(* The values.                                                             *)
(***************************************************************************)
None == [kind |-> "None"]
Missing == [kind |-> "missing"]
Scalar(s) == [kind |-> "scalar", v |-> s]
List(items) == [kind |-> "list", items |-> items]
Dict(m) == [kind |-> "dict", m |-> m]
Elem(t) == [kind |-> "elem", text |-> t]
Obj(cls, key, d) == [kind |-> "obj", cls |-> cls, sort_key |-> key, d |-> d]

\* the names dir() yields that start with one underscore, in dir()'s
\* (alphabetical) order
members == <<"_id", "_val">>
MemberNames == {members[i] : i \in 1..Len(members)}

ScalarValues == {"u", "v"}
Keys == {"k1", "k2"}
SortKeys == {1, 2}

\* x.__class__.__name__
ClassName(x) ==
    CASE x.kind = "obj" -> x.cls
      [] x.kind = "None" -> "NoneType"
      [] x.kind = "scalar" -> "int"
      [] x.kind = "list" -> "list"
      [] x.kind = "dict" -> "dict"
      [] x.kind = "elem" -> "_Element"

\* d.keys()
keys(d) == {k \in Keys : d.m[k] # "missing"}

\* set(x) for a list or a dict: a list's scalars by value, a dict's keys; an
\* object hashes by identity and a scalar never equals it
PySet(x) ==
    IF x.kind = "list"
    THEN {IF x.items[i].kind = "scalar" THEN x.items[i].v ELSE "object" : i \in 1..Len(x.items)}
    ELSE keys(x)

(***************************************************************************)
(* sorted(seq, key=attrgetter('sort_key')): a stable sort.                 *)
(***************************************************************************)
RECURSIVE Insert(_, _)
Insert(e, s) ==
    IF s = <<>> THEN <<e>>
    ELSE IF s[Len(s)].sort_key <= e.sort_key THEN Append(s, e)
    ELSE Append(Insert(e, SubSeq(s, 1, Len(s) - 1)), s[Len(s)])

\* no sort at all
unsorted(s) == s

RECURSIVE sorted(_)
sorted(s) ==
    IF s = <<>> THEN <<>>
    ELSE Insert(s[Len(s)], sorted(SubSeq(s, 1, Len(s) - 1)))

(***************************************************************************)
(* TAXIIBase.__eq__.  A call ends in one of True, False or a raised         *)
(* exception (out), after reading so many entries of self.__dict__ and     *)
(* other.__dict__ (reads), nested calls included.                          *)
(***************************************************************************)
Ret(out, reads) == [out |-> out, reads |-> reads]
Raised(r) == r.out \notin {"True", "False"}
Bool(p) == IF p THEN "True" ELSE "False"

\* whether len(x) is defined, and its value
HasLen(x) == x.kind \in {"list", "dict", "elem"}
len(x) ==
    CASE x.kind = "list" -> Len(x.items)
      [] x.kind = "dict" -> Cardinality(keys(x))
      [] x.kind = "elem" -> Cardinality({})

\* whether every item of a list has the attribute sort_key
AllHaveSortKey(x) ==
    /\ x.kind = "list"
    /\ \A i \in 1..Len(x.items) : x.items[i].kind = "obj"

\* self_value == other_value for a self_value that is None or a scalar; an
\* object on the right answers through its reflected __eq__, which sees
\* another class name
DirectEq(self_value, other_value) ==
    IF self_value.kind = "None" THEN other_value.kind = "None"
    ELSE other_value.kind = "scalar" /\ other_value.v = self_value.v

\* the dict branch: the key difference self - other is taken, every
\* other_value[k] is looked up, and eq is True after the loop
DictEq(self_value, other_value) ==
    IF other_value.kind = "elem"
    THEN IF keys(self_value) = {} THEN "True" ELSE "TypeError"
    ELSE IF other_value.kind # "dict" THEN "AttributeError"
    ELSE IF keys(self_value) \ keys(other_value) # {} THEN "KeyError"
    ELSE "True"

RECURSIVE Eq(_, _)
RECURSIVE ZipEq(_, _)
RECURSIVE EqMembers(_, _, _)

\* for self_item, other_item in zip(...): eq = self_item.__eq__(other_item)
ZipEq(self_items, other_items) ==
    LET first == Eq(self_items[1], other_items[1]) IN
    IF Len(self_items) = 1 \/ Raised(first) THEN first
    ELSE LET rest == ZipEq(Tail(self_items), Tail(other_items)) IN
         Ret(rest.out, first.reads + rest.reads)

\* the list branch without its case for two empty lists: self_value[0] fails
ListEqNoEmptyCase(self_value, other_value) ==
    IF ~HasLen(other_value) THEN Ret("TypeError", 0)
    ELSE IF len(self_value) # len(other_value) THEN Ret("False", 0)
    ELSE IF len(self_value) = 0 THEN Ret("IndexError", 0)
    ELSE IF self_value.items[1].kind = "obj"
    THEN IF ~AllHaveSortKey(self_value) \/ ~AllHaveSortKey(other_value)
         THEN Ret("AttributeError", 0)
         ELSE ZipEq(sorted(self_value.items), sorted(other_value.items))
    ELSE Ret(Bool(PySet(self_value) = PySet(other_value)), 0)

\* the list branch
ListEq(self_value, other_value) ==
    IF ~HasLen(other_value) THEN Ret("TypeError", 0)
    ELSE IF len(self_value) # len(other_value) THEN Ret("False", 0)
    ELSE IF len(self_value) = 0 THEN Ret("True", 0)
    ELSE IF self_value.items[1].kind = "obj"
    THEN IF ~AllHaveSortKey(self_value) \/ ~AllHaveSortKey(other_value)
         THEN Ret("AttributeError", 0)
         ELSE ZipEq(sorted(self_value.items), sorted(other_value.items))
    ELSE Ret(Bool(PySet(self_value) = PySet(other_value)), 0)

\* the value of eq for one member
FieldEq(self_value, other_value) ==
    CASE self_value.kind = "obj" -> Eq(self_value, other_value)
      [] self_value.kind = "list" -> ListEq(self_value, other_value)
      [] self_value.kind = "dict" -> Ret(DictEq(self_value, other_value), 0)
      [] self_value.kind = "elem" ->
            IF other_value.kind # "elem" THEN Ret("TypeError", 0)
            ELSE Ret(Bool(self_value.text = other_value.text), 0)
      [] OTHER -> Ret(Bool(DirectEq(self_value, other_value)), 0)

\* for member in members, from the i-th on
EqMembers(self, other, i) ==
    IF i > Len(members) THEN Ret("True", 0)
    ELSE LET member == members[i] IN
         IF self.d[member].kind = "missing" THEN EqMembers(self, other, i + 1)
         ELSE IF other.d[member].kind = "missing" THEN Ret("KeyError", 1)
         ELSE LET eq == FieldEq(self.d[member], other.d[member]) IN
              IF eq.out # "True" THEN Ret(eq.out, 2 + eq.reads)
              ELSE LET rest == EqMembers(self, other, i + 1) IN
                   Ret(rest.out, 2 + eq.reads + rest.reads)

\* __eq__ that tests isinstance(other, TAXIIBase) instead of the class names
EqIsInstance(self, other) ==
    IF other.kind # "obj" THEN Ret("False", 0)
    ELSE EqMembers(self, other, 1)

Eq(self, other) ==
    IF other.kind = "None" THEN Ret("False", 0)
    ELSE IF ClassName(self) # ClassName(other) THEN Ret("False", 0)
    ELSE EqMembers(self, other, 1)

\* TAXIIBase.__ne__
Ne(self, other) ==
    LET eq == Eq(self, other) IN
    IF Raised(eq) THEN eq ELSE Ret(Bool(eq.out # "True"), eq.reads)

(***************************************************************************)
(* The inputs of a comparison.                                             *)
(***************************************************************************)
RECURSIVE SeqsUpTo(_, _)
SeqsUpTo(S, n) ==
    IF n = 0 THEN {<<>>}
    ELSE LET shorter == SeqsUpTo(S, n - 1) IN
         shorter \cup {Append(s, x) : s \in {t \in shorter : Len(t) = n - 1}, x \in S}

Scalars == {Scalar(s) : s \in ScalarValues}
Dicts == {Dict(m) : m \in [Keys -> ScalarValues \cup {"missing"}]}
Elems == {Elem(t) : t \in {"<x/>", "<y/>"}}

\* a component type with the one field _id, which an instance may lack
Items ==
    {Obj("Item", k, [m \in MemberNames |-> IF m = "_id" THEN v ELSE Missing]) :
        k \in SortKeys, v \in Scalars \cup {Missing}}

ScalarLists == {List(s) : s \in SeqsUpTo(Scalars, MaxLen)}
ItemLists == {List(s) : s \in SeqsUpTo(Items, MaxLen) \ {<<>>}}

\* what a field of a message may hold
Values == {None} \cup Scalars \cup ScalarLists \cup ItemLists \cup Dicts \cup Elems \cup Items

\* messages of class cls: _id is one of ids or not set, _val is any value or
\* not set
Messages(cls, ids) ==
    {Obj(cls, 1, [m \in MemberNames |-> IF m = "_id" THEN i ELSE v]) :
        i \in ids \cup {Missing}, v \in Values \cup {Missing}}

\* the items that have their field, and the lists of them
FullItems == {i \in Items : i.d["_id"].kind # "missing"}
FullItemLists == {List(s) : s \in SeqsUpTo(FullItems, MaxLen) \ {<<>>}}

\* the list with its items in the order p
Permute(list, p) == List([i \in 1..Len(list.items) |-> list.items[p[i]]])

\* the messages that differ from x in the order of the list in _val at most
Reorderings(x) ==
    {[x EXCEPT !.d["_val"] = Permute(x.d["_val"], p)] :
        p \in Permutations(1..Len(x.d["_val"].items))}

(***************************************************************************)
(* The calls.                                                              *)
(***************************************************************************)
CallEq ==
    /\ call = "none"
    /\ call' = "eq"
    /\ ret' = Eq(a, b)
    /\ UNCHANGED <<a, b, parserVars>>

CallNe ==
    /\ call = "none"
    /\ call' = "ne"
    /\ ret' = Ne(a, b)
    /\ UNCHANGED <<a, b, parserVars>>

NoCall == [op |-> "none", val |-> None]

NoParser ==
    /\ XML_PARSER = None
    /\ constructed = 0
    /\ lastCall = NoCall
    /\ prevCall = NoCall
    /\ lastSet = [called |-> FALSE, arg |-> None, constructed |-> 0]

NoComparison ==
    /\ a = None
    /\ b = None
    /\ call = "none"
    /\ ret = Ret("none", 0)

\* a is a message, b is a message of the same class or None
InitEq ==
    /\ NoParser
    /\ a \in Messages("Msg", Scalars \cup Dicts)
    /\ b \in Messages("Msg", Scalars \cup Dicts) \cup {None}
    /\ call = "none"
    /\ ret = Ret("none", 0)

\* a is a message, b is None, a message of another class or no message at all
InitType ==
    /\ NoParser
    /\ a \in Messages("Msg", Scalars)
    /\ b \in Messages("Other", Scalars) \cup Values
    /\ call = "none"
    /\ ret = Ret("none", 0)

\* a is a message with a list of items in _val, b is a with the list reordered
InitPerm ==
    /\ NoParser
    /\ a \in {x \in Messages("Msg", Scalars) : x.d["_val"] \in FullItemLists}
    /\ b \in Reorderings(a)
    /\ call = "none"
    /\ ret = Ret("none", 0)

\* a message whose two fields hold any value, compared with itself
InitRefl ==
    /\ NoParser
    /\ a \in {Obj("Msg", 1, d) : d \in [MemberNames -> Values \cup {Missing}]}
    /\ b = a
    /\ call = "none"
    /\ ret = Ret("none", 0)

NextEq == CallEq \/ CallNe

SpecEq == InitEq /\ [][NextEq]_vars
SpecType == InitType /\ [][NextEq]_vars
SpecRefl == InitRefl /\ [][NextEq]_vars
SpecPerm == InitPerm /\ [][NextEq]_vars

(***************************************************************************)
(* The parser slot.  A parser is an object with an identity: the n-th      *)
(* parser made by the caller, or the n-th default made by get_xml_parser.  *)
(***************************************************************************)
XMLParser(origin, n, no_network, huge_tree) ==
    [kind |-> "XMLParser", origin |-> origin, n |-> n,
     no_network |-> no_network, huge_tree |-> huge_tree]

\* etree.XMLParser(no_network=True, huge_tree=True), the n-th one constructed
DefaultParser(n) == XMLParser("default", n, TRUE, TRUE)

\* the parsers the caller holds, one of them configured as the default is
CallerParsers ==
    {XMLParser("caller", 1, FALSE, FALSE), XMLParser("caller", 2, TRUE, TRUE),
     XMLParser("caller", 3, TRUE, FALSE)}

\* get_xml_parser without the test of the slot
get_xml_parser_always_constructs ==
    /\ constructed < MaxDefaults
    /\ XML_PARSER' = DefaultParser(constructed + 1)
    /\ constructed' = constructed + 1

get_xml_parser ==
    IF XML_PARSER = None
    THEN /\ constructed < MaxDefaults
         /\ XML_PARSER' = DefaultParser(constructed + 1)
         /\ constructed' = constructed + 1
    ELSE UNCHANGED <<XML_PARSER, constructed>>

\* set_xml_parser that stores only a parser, never None
set_xml_parser_keeps_on_None(xml_parser) ==
    /\ XML_PARSER' = IF xml_parser.kind = "None" THEN XML_PARSER ELSE xml_parser
    /\ UNCHANGED constructed

set_xml_parser(xml_parser) ==
    /\ XML_PARSER' = xml_parser
    /\ UNCHANGED constructed

\* a call of get_xml_parser, with what it returned
CallGet ==
    /\ get_xml_parser
    /\ lastCall' = [op |-> "get", val |-> XML_PARSER']
    /\ prevCall' = lastCall
    /\ UNCHANGED <<lastSet, eqVars>>

\* a call of set_xml_parser, with its argument
CallSet ==
    \E xml_parser \in CallerParsers \cup {None} :
        /\ set_xml_parser(xml_parser)
        /\ lastCall' = [op |-> "set", val |-> xml_parser]
        /\ prevCall' = lastCall
        /\ lastSet' = [called |-> TRUE, arg |-> xml_parser, constructed |-> constructed]
        /\ UNCHANGED eqVars

InitParser == NoParser /\ NoComparison

NextParser == CallGet \/ CallSet

SpecParser == InitParser /\ [][NextParser]_vars

(***************************************************************************)
(* The properties.                                                         *)
(***************************************************************************)
SameClass == b.kind = "obj" /\ b.cls = a.cls
IsDefault(p) == p.kind = "XMLParser" /\ p.origin = "default" /\ p.no_network /\ p.huge_tree

\* C1: a get_xml_parser call returns the parser of the most recent
\* set_xml_parser call, or, when that call passed None, a default parser
\* constructed after it.
SetThenGet ==
    (lastCall.op = "get" /\ lastSet.called) =>
        IF lastSet.arg.kind # "None"
        THEN lastCall.val = lastSet.arg
        ELSE IsDefault(lastCall.val) /\ lastCall.val.n > lastSet.constructed

\* a get after a clearing set, with a default constructed before the clearing
SetThenGetWitness ==
    /\ lastCall.op = "get"
    /\ lastSet.called
    /\ lastSet.arg.kind = "None"
    /\ lastSet.constructed >= 1

\* C8: two get_xml_parser calls in a row return the same parser, a get on
\* a slot that is not None changes nothing, and at most one default is
\* constructed since the most recent set_xml_parser call.
GetIsStable ==
    [][(lastCall'.op = "get" /\ prevCall' = lastCall) =>
        /\ (lastCall.op = "get" => lastCall'.val = lastCall.val)
        /\ (XML_PARSER.kind # "None" =>
                XML_PARSER' = XML_PARSER /\ constructed' = constructed)
        /\ constructed' <= lastSet'.constructed + 1]_vars

\* two get calls in a row
GetIsStableWitness ==
    /\ lastCall.op = "get"
    /\ prevCall.op = "get"

\* other is None, of another class, lacks a field of self, or holds a dict
\* that lacks a key of self's dict
Mismatch ==
    \/ b.kind # "obj"
    \/ b.cls # a.cls
    \/ \E m \in MemberNames : a.d[m].kind # "missing" /\ b.d[m].kind = "missing"
    \/ \E m \in MemberNames :
            /\ a.d[m].kind = "dict"
            /\ b.d[m].kind = "dict"
            /\ keys(a.d[m]) \ keys(b.d[m]) # {}

\* C2: __eq__ returns a boolean, and False when other is None, of another
\* class, lacks a field of self, or holds a dict that lacks a key of self's.
EqNeverRaises ==
    call = "eq" =>
        /\ ret.out \in {"True", "False"}
        /\ (Mismatch => ret.out = "False")

\* C3: __eq__ returns False without reading a field when other is None or
\* of another class.
TypeDiscrimination ==
    (call = "eq" /\ (b.kind = "None" \/ ClassName(a) # ClassName(b))) =>
        ret = Ret("False", 0)

\* a message of another class with the very same fields
TypeDiscriminationWitness ==
    /\ call = "eq"
    /\ b.kind = "obj"
    /\ b.cls # a.cls
    /\ b.d = a.d
    /\ a.d["_id"].kind = "scalar"
    /\ a.d["_val"].kind = "list"

\* C4: a message equals itself.
Reflexivity ==
    (call = "eq" /\ b = a) => ret.out = "True"

\* a message with a dict and a list of several items, compared with itself
ReflexivityWitness ==
    /\ call = "eq"
    /\ b = a
    /\ a.d["_id"].kind = "dict"
    /\ a.d["_val"].kind = "list"
    /\ Len(a.d["_val"].items) >= 2
    /\ a.d["_val"].items[1].kind = "obj"

\* how often e occurs in s
Count(s, e) == Cardinality({i \in 1..Len(s) : s[i] = e})
IsPermutation(s, t) ==
    /\ Len(s) = Len(t)
    /\ \A i \in 1..Len(s) : Count(s, s[i]) = Count(t, s[i])

\* both messages hold a list in _val, a's of objects
BothLists ==
    /\ SameClass
    /\ a.d["_val"].kind = "list"
    /\ b.d["_val"].kind = "list"

BothItemLists ==
    /\ BothLists
    /\ Len(a.d["_val"].items) >= 1
    /\ AllHaveSortKey(a.d["_val"])
    /\ AllHaveSortKey(b.d["_val"])

\* the same message but for the order of the items in _val
Permuted ==
    /\ BothItemLists
    /\ a.d["_id"] = b.d["_id"]
    /\ IsPermutation(a.d["_val"].items, b.d["_val"].items)

\* items with the same sort_key are the same item
TiesIdentical(s) ==
    \A i, j \in 1..Len(s) : s[i].sort_key = s[j].sort_key => s[i] = s[j]

\* C5 as stated: a message equals the message with its item list permuted.
OrderIndependent ==
    (call = "eq" /\ Permuted) => ret.out = "True"

\* C5: a message equals the message with its item list permuted, when no
\* two different items of the list share a sort_key.
OrderIndependentDistinctKeys ==
    (call = "eq" /\ Permuted /\ TiesIdentical(a.d["_val"].items)) => ret.out = "True"

\* two lists in different orders
OrderIndependentWitness ==
    /\ call = "eq"
    /\ Permuted
    /\ TiesIdentical(a.d["_val"].items)
    /\ a.d["_val"].items # b.d["_val"].items

\* C6: two dict fields are equal exactly when they have the same keys and
\* the same value under every key.
MappingFieldEquality ==
    (/\ call = "eq"
     /\ SameClass
     /\ a.d["_id"] = b.d["_id"]
     /\ a.d["_val"].kind = "dict"
     /\ b.d["_val"].kind = "dict") =>
        ret.out = Bool(a.d["_val"].m = b.d["_val"].m)

\* C7: lists of different lengths make __eq__ return False.
LengthMismatchUnequal ==
    (/\ call = "eq"
     /\ BothLists
     /\ Len(a.d["_val"].items) # Len(b.d["_val"].items)) =>
        ret.out = "False"

\* the last pair of the two sorted lists
LastPair ==
    LET self_value == sorted(a.d["_val"].items)
        other_value == sorted(b.d["_val"].items)
    IN Eq(self_value[Len(self_value)], other_value[Len(other_value)])

\* C9: for two lists of objects of the same length, the last pair of the
\* sorted lists decides: equal, the field is equal; unequal, it is not.
LastPairDecides ==
    (/\ call = "eq"
     /\ BothItemLists
     /\ a.d["_id"] = b.d["_id"]
     /\ Len(a.d["_val"].items) = Len(b.d["_val"].items)) =>
        /\ (LastPair.out = "True" => ret.out = "True")
        /\ (LastPair.out = "False" => ret.out = "False")

\* C10: a == b and b == a end the same way, and a != b is the negation
\* of a == b.
Symmetry ==
    /\ (call = "eq" /\ SameClass) => ret.out = Eq(b, a).out
    /\ (call = "ne" /\ SameClass /\ ~Raised(Eq(a, b))) =>
            ret.out = Bool(Eq(a, b).out = "False")

====
